---- MODULE Spec2Model ----
(***************************************************************************)
(* A model of the e-mail finder: the site crawl of email_scraper.py        *)
(* (EmailScraper), the batch entry point scrape_emails_from_urls and the   *)
(* verification/retry phase of bot.py (EmailScraperBot._process_urls).     *)
(*                                                                         *)
(* Strings are TLC strings; SubSeq, Len and \o act on them character by    *)
(* character, so Python's substring tests, prefixes and splits are         *)
(* computed, not assumed.                                                  *)
(***************************************************************************)
EXTENDS Integers, Sequences, FiniteSets, TLC

(***************************************************************************)
(* Python string operations used by the source                             *)
(***************************************************************************)

\* sub in s
Contains(s, sub) ==
    \E i \in 1..(Len(s) - Len(sub) + 1) : SubSeq(s, i, i + Len(sub) - 1) = sub

\* s.startswith(p)
StartsWith(s, p) == Len(s) >= Len(p) /\ SubSeq(s, 1, Len(p)) = p

\* s.endswith(p)
EndsWith(s, p) == Len(s) >= Len(p) /\ SubSeq(s, Len(s) - Len(p) + 1, Len(s)) = p

\* s.find(sub) + 1: the 1-based place of the first occurrence, 0 when there is none
IndexOf(s, sub) ==
    LET hits == {i \in 1..(Len(s) - Len(sub) + 1) : SubSeq(s, i, i + Len(sub) - 1) = sub}
    IN  IF hits = {} THEN 0 ELSE CHOOSE i \in hits : \A j \in hits : i <= j

\* s.count(sub) for a one-character sub
CountChar(s, c) == Cardinality({i \in 1..Len(s) : SubSeq(s, i, i) = c})

\* the part of s from place i on
From(s, i) == SubSeq(s, i, Len(s))

LowerChar(c) ==
    CASE c = "A" -> "a" [] c = "B" -> "b" [] c = "C" -> "c" [] c = "D" -> "d"
      [] c = "E" -> "e" [] c = "F" -> "f" [] c = "G" -> "g" [] c = "H" -> "h"
      [] c = "I" -> "i" [] c = "J" -> "j" [] c = "K" -> "k" [] c = "L" -> "l"
      [] c = "M" -> "m" [] c = "N" -> "n" [] c = "O" -> "o" [] c = "P" -> "p"
      [] c = "Q" -> "q" [] c = "R" -> "r" [] c = "S" -> "s" [] c = "T" -> "t"
      [] c = "U" -> "u" [] c = "V" -> "v" [] c = "W" -> "w" [] c = "X" -> "x"
      [] c = "Y" -> "y" [] c = "Z" -> "z" [] OTHER -> c

RECURSIVE Lower(_)
\* s.lower()
Lower(s) == IF s = "" THEN "" ELSE LowerChar(SubSeq(s, 1, 1)) \o Lower(From(s, 2))

RECURSIVE LStrip(_, _)
\* s.lstrip(c)
LStrip(s, c) == IF s # "" /\ SubSeq(s, 1, 1) = c THEN LStrip(From(s, 2), c) ELSE s

RECURSIVE RStrip(_, _)
\* s.rstrip(c)
RStrip(s, c) ==
    IF s # "" /\ SubSeq(s, Len(s), Len(s)) = c THEN RStrip(SubSeq(s, 1, Len(s) - 1), c) ELSE s

\* s.strip(c); s.strip() is Strip(s, " ") on the inputs drawn here (no tabs or newlines)
Strip(s, c) == RStrip(LStrip(s, c), c)

RECURSIVE Split(_, _)
\* s.split(c) for a one-character separator
Split(s, c) ==
    LET i == IndexOf(s, c)
    IN  IF i = 0 THEN <<s>> ELSE <<SubSeq(s, 1, i - 1)>> \o Split(From(s, i + 1), c)

\* s.replace(old, "") for an old that occurs at most once in the inputs drawn here
RemoveFirst(s, old) ==
    LET i == IndexOf(s, old)
    IN  IF i = 0 THEN s ELSE SubSeq(s, 1, i - 1) \o From(s, i + Len(old))

Range(f) == {f[i] : i \in DOMAIN f}

\* any(key in s for key in keys)
AnyIn(keys, s) == \E i \in 1..Len(keys) : Contains(s, keys[i])

(***************************************************************************)
(* validators.url / validators.email and urllib.parse.urlparse             *)
(***************************************************************************)

\* a dotted host name: at least two labels, none empty, a top-level label of 2+ characters
DottedName(h) ==
    LET labels == Split(h, ".")
    IN  /\ Len(labels) >= 2
        /\ \A i \in 1..Len(labels) : labels[i] # ""
        /\ Len(labels[Len(labels)]) >= 2
        /\ ~Contains(h, " ") /\ ~Contains(h, "@") /\ ~Contains(h, ":")

\* urlparse(url): scheme, netloc and path of an absolute URL (no query in the inputs drawn here)
urlparse(url) ==
    LET i    == IndexOf(url, "://")
        rest == IF i = 0 THEN "" ELSE From(url, i + 3)
        hash == IndexOf(rest, "#")
        body == IF hash = 0 THEN rest ELSE SubSeq(rest, 1, hash - 1)
        j    == IndexOf(body, "/")
    IN  IF i = 0
        THEN [scheme |-> "", netloc |-> "", path |-> url]
        ELSE [scheme |-> SubSeq(url, 1, i - 1),
              netloc |-> IF j = 0 THEN body ELSE SubSeq(body, 1, j - 1),
              path   |-> IF j = 0 THEN "" ELSE From(body, j)]

\* validators.url(s): truthy iff s is a well-formed http(s) URL
ValidUrl(s) ==
    /\ StartsWith(s, "http://") \/ StartsWith(s, "https://")
    /\ ~Contains(s, " ")
    /\ DottedName(urlparse(s).netloc)

\* validators.email(s): truthy iff s is local@domain with a dotted domain
ValidEmail(s) ==
    /\ CountChar(s, "@") = 1
    /\ ~Contains(s, " ")
    /\ LET parts == Split(s, "@")
       IN  parts[1] # "" /\ DottedName(parts[2])

\* the value Python's None takes here
None == "<None>"

\* a normalisation that accepts every line as a host name
normalize_url_unchecked(raw) == "https://" \o Strip(raw, " ")

\* a normalisation that tries the http:// forms before the https:// forms
normalize_url_http_first(raw) ==
    IF raw = "" THEN None
    ELSE LET url == Strip(raw, " ")
             candidates == <<"http://" \o url, "http://www." \o url,
                             "https://" \o url, "https://www." \o url>>
             ok == {i \in 1..4 : ValidUrl(candidates[i])}
         IN  IF StartsWith(url, "http://") \/ StartsWith(url, "https://")
             THEN IF ValidUrl(url) THEN url ELSE None
             ELSE IF StartsWith(url, "www.") /\ ValidUrl("https://" \o url)
             THEN "https://" \o url
             ELSE IF Contains(url, ".") /\ ~Contains(url, " ") /\ ok # {}
             THEN candidates[CHOOSE i \in ok : \A j \in ok : i <= j]
             ELSE None

\* EmailScraper._normalize_url
normalize_url(raw) ==
    IF raw = "" THEN None
    ELSE LET url == Strip(raw, " ")
             candidates == <<"https://" \o url, "https://www." \o url,
                             "http://" \o url, "http://www." \o url>>
             ok == {i \in 1..4 : ValidUrl(candidates[i])}
         IN  IF StartsWith(url, "http://") \/ StartsWith(url, "https://")
             THEN IF ValidUrl(url) THEN url ELSE None
             ELSE IF StartsWith(url, "www.") /\ ValidUrl("https://" \o url)
             THEN "https://" \o url
             ELSE IF Contains(url, ".") /\ ~Contains(url, " ") /\ Len(Split(url, ".")) >= 2
                     /\ ok # {}
             THEN candidates[CHOOSE i \in ok : \A j \in ok : i <= j]
             ELSE None

(***************************************************************************)
(* Program constants (config.py) and keyword lists (email_scraper.py)      *)
(***************************************************************************)

MAX_CONCURRENT_SITES == 3

MAX_EMAILS_PER_DOMAIN == 5

MAX_PAGES_PER_DOMAIN == 5

corporate_prefixes ==
    <<"info", "contact", "sales", "support", "admin", "hello", "mail",
      "marketing", "press", "jobs", "office", "reception", "billing">>

priority1_keys == <<"contact", "kontakty", "contatti", "kontakt", "contacts">>

priority2_keys == <<"about", "team", "staff", "imprint", "legal", "feedback", "company">>

exact_paths == <<"contatti", "contact", "contacts", "kontakt", "kontakty">>

ignore_ext ==
    <<".jpg", ".jpeg", ".png", ".gif", ".pdf", ".zip", ".rar", ".css", ".js", ".xml",
      ".svg", ".webp">>

ignore_keywords ==
    <<"login", "signin", "register", "cart", "checkout", "my-account", "tel:", "mailto:",
      "javascript:void(0)">>

denied_ext == <<".jpg", ".png", ".gif", ".pdf", ".doc", ".zip">>

denied_words == <<"example", "test", "sample", "demo", "sentry.io", "wixpress.com">>

\* the status strings of _scrape_single_site, named in English
InProgress == "InProgress"
InvalidUrl == "InvalidUrl"
Unreachable == "Unreachable"
SuccessOnHomePage == "SuccessOnHomePage"
Success == "Success"
ContactPageFound_NoEmail == "ContactPageFound_NoEmail"
NoEmailFound == "NoEmailFound"
Error == "Error"

\* the contact_page marker of the early exit
HomePageMarker == "<home page>"

(***************************************************************************)
(* Iteration order of a Python set: any enumeration of its elements        *)
(***************************************************************************)

RECURSIVE Orderings(_)
Orderings(S) ==
    IF S = {} THEN {<<>>}
    ELSE UNION {{<<e>> \o rest : rest \in Orderings(S \ {e})} : e \in S}

(***************************************************************************)
(* E-mail extraction, ranking and filtering                                *)
(***************************************************************************)

\* all_found_emails of _get_emails_with_context: the text matches and the mailto targets
all_found_emails(page) == Range(page.text) \cup page.mailto

\* element.find_parents(['footer', 'header', 'address']) for the first text node that
\* matches the address, innermost first; empty when no text node matches
find_parents(page, email) ==
    IF email \in DOMAIN page.parents THEN page.parents[email] ELSE <<>>

\* a context score that adds 30 for every footer, header or address ancestor
context_score_stacking(page, email) ==
    (IF email \in page.mailto THEN 50 ELSE 0) + 30 * Len(find_parents(page, email))

\* score of _get_emails_with_context (lines 192-206): the loop over the ancestors
\* stops at the first one
context_score(page, email) ==
    (IF email \in page.mailto THEN 50 ELSE 0)
    + (IF find_parents(page, email) # <<>> THEN 30 ELSE 0)

\* _get_emails_with_context, the candidates listed in the set's iteration order
get_emails_with_context(page, order) ==
    [i \in 1..Len(order) |->
        [address |-> order[i], score |-> context_score(page, order[i])]]

\* _get_emails_with_context_from_set
get_emails_with_context_from_set(order) ==
    [i \in 1..Len(order) |-> [address |-> order[i], score |-> 0]]

\* site_domain of _prioritize_emails_by_relevance
site_domain(site_url) == Lower(RemoveFirst(urlparse(site_url).netloc, "www."))

\* the tuple unpacking of email_lower.split('@') raises ValueError on two or more '@'
SplitRaises(address) == CountChar(Lower(address), "@") > 1

\* _prioritize_emails_by_relevance raises on a candidate it cannot unpack
prioritize_raises(cands) == \E i \in 1..Len(cands) : SplitRaises(cands[i].address)

email_prefix(address) ==
    IF Contains(address, "@") THEN Split(Lower(address), "@")[1] ELSE ""

email_domain(address) ==
    IF Contains(address, "@") THEN Split(Lower(address), "@")[2] ELSE ""

is_domain_match(address, site_url) == Contains(email_domain(address), site_domain(site_url))

prefix_score(address) ==
    LET prefix == email_prefix(address)
        hits == {k \in 1..Len(corporate_prefixes) : Contains(prefix, corporate_prefixes[k])}
    IN  IF hits = {} THEN 0
        ELSE Len(corporate_prefixes) - ((CHOOSE k \in hits : \A j \in hits : k <= j) - 1)

total_score(cand, site_url) ==
    (IF is_domain_match(cand.address, site_url) THEN 100 ELSE 0)
    + cand.score + prefix_score(cand.address)

RECURSIVE InsertDescAfterEquals(_, _)
\* an insertion that puts x behind the elements of equal key
InsertDescAfterEquals(x, seq) ==
    IF seq = <<>> \/ seq[1].total_score < x.total_score
    THEN <<x>> \o seq
    ELSE <<seq[1]>> \o InsertDescAfterEquals(x, Tail(seq))

RECURSIVE InsertDesc(_, _)
\* x before the first element of the sorted seq whose key is not larger
InsertDesc(x, seq) ==
    IF seq = <<>> \/ seq[1].total_score <= x.total_score
    THEN <<x>> \o seq
    ELSE <<seq[1]>> \o InsertDesc(x, Tail(seq))

\* a ranking that leaves the candidates in the order it was given them
Unsorted(seq) == seq

RECURSIVE SortDesc(_)
\* sorted(..., key=total_score, reverse=True): stable
SortDesc(seq) == IF seq = <<>> THEN <<>> ELSE InsertDesc(seq[1], SortDesc(Tail(seq)))

\* _prioritize_emails_by_relevance (when it does not raise)
prioritize_emails_by_relevance(cands, site_url) ==
    SortDesc([i \in 1..Len(cands) |->
                [address         |-> cands[i].address,
                 score           |-> cands[i].score,
                 is_domain_match |-> is_domain_match(cands[i].address, site_url),
                 total_score     |-> total_score(cands[i], site_url)]])

\* email_lower of _filter_and_limit_emails
email_key(address) == Strip(Strip(Lower(address), " "), ".")

\* the two denylist tests of _filter_and_limit_emails
denylisted(key) == AnyIn(denied_ext, key) \/ AnyIn(denied_words, key)

RECURSIVE valid_emails(_, _)
\* the loop of _filter_and_limit_emails over the ranked candidates
valid_emails(ranked, seen) ==
    IF ranked = <<>> THEN <<>>
    ELSE LET key == email_key(ranked[1].address)
         IN  IF key \in seen \/ denylisted(key) \/ ~ValidEmail(key)
             THEN valid_emails(Tail(ranked), seen)
             ELSE <<ranked[1].address>> \o valid_emails(Tail(ranked), seen \cup {key})

\* valid_emails[:n]
Truncate(seq, n) == SubSeq(seq, 1, IF Len(seq) < n THEN Len(seq) ELSE n)

\* _filter_and_limit_emails
filter_and_limit_emails(ranked) == Truncate(valid_emails(ranked, {}), MAX_EMAILS_PER_DOMAIN)

(***************************************************************************)
(* Link extraction and the choice of the contact page                      *)
(***************************************************************************)

\* urljoin(base_url, href) for the hrefs drawn here: absolute, or rooted at "/"
urljoin(base_url, href) ==
    IF Contains(href, "://") THEN href
    ELSE urlparse(base_url).scheme \o "://" \o urlparse(base_url).netloc \o href

\* full_url.split('#')[0]
StripFragment(url) == Split(url, "#")[1]

\* _get_all_internal_links
get_all_internal_links(page, base_url) ==
    {StripFragment(urljoin(base_url, page.hrefs[i])) : i \in
        {k \in 1..Len(page.hrefs) :
            /\ page.hrefs[k] # ""
            /\ ~AnyIn(ignore_keywords, Lower(page.hrefs[k]))
            /\ ~\E e \in 1..Len(ignore_ext) : EndsWith(Lower(page.hrefs[k]), ignore_ext[e])
            /\ Contains(urlparse(urljoin(base_url, page.hrefs[k])).netloc,
                        urlparse(base_url).netloc)
            /\ ValidUrl(urljoin(base_url, page.hrefs[k]))}}

\* urlparse(link).path.lower()
path_lower(link) == Lower(urlparse(link).path)

\* p1_links of _scrape_single_site
p1_links(internal_links) == {l \in internal_links : AnyIn(priority1_keys, path_lower(l))}

\* other_links of _scrape_single_site
other_links(internal_links) == {l \in internal_links : AnyIn(priority2_keys, path_lower(l))}

\* the bucket _sort_contact_pages_by_priority puts a link into: 0 when it is skipped
bucket(link, base_url) ==
    LET path == Strip(path_lower(link), "/")
    IN  IF urlparse(link).netloc # urlparse(base_url).netloc THEN 0
        ELSE IF \E i \in 1..Len(exact_paths) : path = exact_paths[i] THEN 1
        ELSE IF ~Contains(path, "/") /\ (Contains(path, "contact") \/ Contains(path, "kontakt"))
        THEN 2
        ELSE 3

RECURSIVE InsertByPath(_, _)
\* x before the first element of the sorted seq whose path is strictly longer
InsertByPath(x, seq) ==
    IF seq = <<>> THEN <<x>>
    ELSE IF Len(urlparse(seq[1]).path) > Len(urlparse(x).path) THEN <<x>> \o seq
    ELSE <<seq[1]>> \o InsertByPath(x, Tail(seq))

RECURSIVE SortByPath(_)
\* list.sort(key=len(path)): stable, ascending
SortByPath(seq) ==
    IF seq = <<>> THEN <<>>
    ELSE InsertByPath(seq[Len(seq)], SortByPath(SubSeq(seq, 1, Len(seq) - 1)))

\* the links of one bucket, in the iteration order of the set
InBucket(order, b, base_url) == SelectSeq(order, LAMBDA l : bucket(l, base_url) = b)

\* _sort_contact_pages_by_priority, the links given in the set's iteration order
sort_contact_pages_by_priority(order, base_url) ==
    SortByPath(InBucket(order, 1, base_url))
    \o SortByPath(InBucket(order, 2, base_url))
    \o SortByPath(InBucket(order, 3, base_url))

(***************************************************************************)
(* The web the crawler is run against: what a rendered fetch of each URL   *)
(* yields when it succeeds.  A page is given by what the parsers of        *)
(* _get_emails_with_context and _get_all_internal_links read off it:       *)
(*   final   page.url after redirects                                      *)
(*   text    the matches of email_pattern in the visible text, in order    *)
(*   mailto  the targets of the mailto: anchors                            *)
(*   ctx     the addresses whose text occurrence has a footer, header or   *)
(*           address ancestor                                              *)
(*   hrefs   the href of every anchor, in order                            *)
(*   parents the footer, header and address ancestors of that text         *)
(*           occurrence, innermost first                                   *)
(*   footer  the mailto targets whose anchor sits inside a <footer>; the   *)
(*           code never looks at this, the early-exit claims speak of it   *)
(***************************************************************************)

Page(final, text, mailto, ctx, hrefs) ==
    [final |-> final, text |-> text, mailto |-> mailto, ctx |-> ctx, hrefs |-> hrefs,
     parents |-> [a \in ctx |-> <<"footer">>], footer |-> {}]

\* a page whose mailto anchors all sit inside its footer
FooterPage(final, text, mailto, ctx, hrefs) ==
    [final |-> final, text |-> text, mailto |-> mailto, ctx |-> ctx, hrefs |-> hrefs,
     parents |-> [a \in ctx |-> <<"footer">>], footer |-> mailto]

WebUrls ==
    {"https://acme.com", "https://acme.org", "https://acme.org/contact",
     "https://acme.org/about", "https://acme.it", "https://acme.it/contatti",
     "https://shop.io", "https://big.com", "https://dead.net",
     "https://dead.net/contact", "https://dead.net/about", "https://dead.net/team",
     "https://dead.net/company", "https://twice.net", "https://twice.net/about/contact",
     "https://corp.eu", "https://blog.corp.eu/about", "https://corp.eu.evil.com/team",
     "https://roma.it", "https://roma.it/contatti-sede", "https://roma.it/contatti/a"}

Web(url) ==
    CASE url = "https://acme.com" ->
            \* <footer><a href="mailto:info@acme.com">Contact</a></footer>
            FooterPage("https://acme.com/", <<>>, {"info@acme.com"}, {},
                       <<"mailto:info@acme.com">>)
      [] url = "https://acme.org" ->
            \* <footer><address><a href="mailto:info@acme.org">info@acme.org</a></address>
            \* </footer> and a menu
            [FooterPage("https://acme.org/", <<"info@acme.org">>, {"info@acme.org"},
                        {"info@acme.org"}, <<"/contact", "/about", "mailto:info@acme.org">>)
                EXCEPT !.parents = [a \in {"info@acme.org"} |-> <<"address", "footer">>]]
      [] url = "https://acme.org/contact" ->
            Page("https://acme.org/contact", <<"office@acme.org", "Info@acme.org">>, {}, {},
                 <<"/">>)
      [] url = "https://acme.org/about" ->
            Page("https://acme.org/about", <<"ceo@acme.org">>, {}, {}, <<"/">>)
      [] url = "https://acme.it" ->
            Page("https://acme.it/", <<>>, {}, {}, <<"/contatti">>)
      [] url = "https://acme.it/contatti" ->
            Page("https://acme.it/contatti", <<"sales@acme.it">>, {}, {}, <<>>)
      [] url = "https://shop.io" ->
            \* six raw candidates, three of them denylisted; one mailto anchor names two
            \* recipients: <a href="mailto:joe@shop.io,ann@shop.io">
            Page("https://shop.io/",
                 <<"sales@shop.io", "info@shop.io", "test@example.com", "info@sentry.io",
                   "logo@2x.png">>,
                 {"joe@shop.io,ann@shop.io"}, {}, <<"/contact">>)
      [] url = "https://big.com" ->
            \* six valid addresses of the site's domain, two of them of equal rank
            Page("https://big.com/",
                 <<"info@big.com", "sales@big.com", "jobs@big.com", "press@big.com",
                   "joe@big.com", "ann@big.com">>,
                 {"sales@big.com"}, {"info@big.com"}, <<>>)
      [] url = "https://dead.net" ->
            Page("https://dead.net/", <<>>, {}, {},
                 <<"/contact", "/about", "/team", "/company">>)
      [] url = "https://dead.net/contact" ->
            \* the site's "not found" page, rendered like any other
            Page("https://dead.net/contact", <<>>, {}, {}, <<"/">>)
      [] url = "https://dead.net/about" ->
            Page("https://dead.net/about", <<"test@example.com">>, {}, {}, <<>>)
      [] url = "https://dead.net/team" ->
            Page("https://dead.net/team", <<>>, {}, {}, <<>>)
      [] url = "https://dead.net/company" ->
            Page("https://dead.net/company", <<"ceo@gmail.com">>, {}, {}, <<>>)
      [] url = "https://twice.net" ->
            \* one link, whose path has a priority-1 key and a priority-2 key
            Page("https://twice.net/", <<>>, {}, {}, <<"/about/contact">>)
      [] url = "https://twice.net/about/contact" ->
            Page("https://twice.net/about/contact", <<"ceo@gmail.com">>, {}, {}, <<"/">>)
      [] url = "https://corp.eu" ->
            \* links to the company's blog, a subdomain, and to a host of another owner
            \* whose name contains the site's
            Page("https://corp.eu/", <<>>, {}, {},
                 <<"https://blog.corp.eu/contact", "https://blog.corp.eu/about",
                   "https://corp.eu.evil.com/team">>)
      [] url = "https://blog.corp.eu/about" ->
            Page("https://blog.corp.eu/about", <<"editor@blog.corp.eu">>, {}, {}, <<>>)
      [] url = "https://corp.eu.evil.com/team" ->
            Page("https://corp.eu.evil.com/team", <<"info@corp.eu.evil.com">>, {}, {}, <<>>)
      [] url = "https://roma.it" ->
            \* <footer><a href="mailto:joe@roma.it">joe@roma.it</a></footer> and two contact
            \* links: a one-segment path and a shorter path of two segments
            FooterPage("https://roma.it/", <<"joe@roma.it">>, {"joe@roma.it"}, {"joe@roma.it"},
                       <<"/contatti-sede", "/contatti/a", "mailto:joe@roma.it">>)
      [] url = "https://roma.it/contatti-sede" ->
            Page("https://roma.it/contatti-sede", <<"sales@roma.it">>, {}, {}, <<>>)
      [] url = "https://roma.it/contatti/a" ->
            Page("https://roma.it/contatti/a", <<"info@roma.it">>, {}, {}, <<>>)
      [] OTHER -> Page(url, <<>>, {}, {}, <<>>)

\* how a call of _get_page_content_with_js can end:
\*   ok            content and final URL returned, page and context closed
\*   fail          an exception during load: (None, url) returned, page and context closed
\*   close_raises  page.close() raises in the finally block: the exception leaves the
\*                 call and context.close() is not reached
FetchOutcomes(url, browser_open) ==
    (IF url \in WebUrls /\ browser_open THEN {"ok"} ELSE {}) \cup {"fail", "close_raises"}

(***************************************************************************)
(* _scrape_single_site between two awaits.  rd is the coroutine's frame:   *)
(* result_data and the locals that live across an await.  Each operator    *)
(* gives the set of frames the code can reach at its next await or return. *)
(* fetches, loaded and exc are history: the URLs given to                  *)
(* _get_page_content_with_js in order, the places in that list of the      *)
(* fetches that came back with content, and whether the except clause was  *)
(* entered.                                                                *)
(***************************************************************************)

NewFrame(url) ==
    [pc |-> "queued", url |-> url, main_page_url |-> "", internal_links |-> {},
     emails |-> {}, listed |-> FALSE, list |-> <<>>, contact_page |-> "",
     status |-> InProgress, cur |-> "", todo |-> <<>>, fetches |-> <<>>, loaded |-> {},
     exc |-> FALSE]

\* a return that leaves the status as it was
ReturnWithoutStatus(rd, status) == [rd EXCEPT !.pc = "returned", !.cur = "", !.todo = <<>>]

\* return url, result_data
Return(rd, status) == [rd EXCEPT !.pc = "returned", !.status = status, !.cur = "", !.todo = <<>>]

\* an exception is raised inside the try block of lines 287-362
Raise(rd) == [rd EXCEPT !.pc = "raised", !.exc = TRUE, !.cur = "", !.todo = <<>>]

\* a crawl without the except clause: what was raised leaves the coroutine
CaughtNever(rd) == rd

\* except Exception (lines 364-367): the status becomes the critical error, result_data
\* keeps what it held, and the coroutine returns
Caught(rd) == IF rd.pc = "raised" THEN Return(rd, Error) ELSE rd

\* the URLs a crawl has given to _get_page_content_simple, the fetch over plain HTTP:
\* none, for _scrape_single_site never calls it (its only caller is _get_emails_from_page,
\* reached from _scan_contact_page_hybrid alone, which nothing calls)
simple_fetches(rd) == <<>>

\* await _get_page_content_with_js(browser, page_url)
StartFetch(rd, pc, page_url, rest) ==
    [rd EXCEPT !.pc = pc, !.cur = page_url, !.todo = rest, !.fetches = Append(@, page_url)]

\* an end of the Done path that does not look at contact_page
DoneIgnoresContactPage(rd, emails) ==
    Return([rd EXCEPT !.listed = TRUE, !.list = emails, !.emails = {}],
           IF emails # <<>> THEN Success ELSE NoEmailFound)

\* result_data["emails"] = _filter_and_limit_emails(...) and the status of the Done path
Done(rd, emails) ==
    Return([rd EXCEPT !.listed = TRUE, !.list = emails, !.emails = {}],
           IF emails # <<>> THEN Success
           ELSE IF rd.contact_page # "" THEN ContactPageFound_NoEmail
           ELSE NoEmailFound)

\* lines 348-362: the final ranking and filtering
Finish(rd) ==
    IF \E a \in rd.emails : SplitRaises(a) THEN {Raise(rd)}
    ELSE {Done(rd, filter_and_limit_emails(prioritize_emails_by_relevance(
                       get_emails_with_context_from_set(order), rd.main_page_url)))
            : order \in Orderings(rd.emails)}

\* an expanded search over every priority-2 link
pages_to_scan_all(links) == Orderings(other_links(links))

\* list(other_links)[:2]
pages_to_scan(links) ==
    {Truncate(order, 2) : order \in Orderings(other_links(links))}

\* a level 3 that searches the priority-2 pages whatever was found before
Level3Always(rd) ==
    IF \E a \in rd.emails : SplitRaises(a) THEN {Raise(rd)}
    ELSE UNION {IF pages = <<>> THEN Finish(rd)
                ELSE {StartFetch(rd, "expanded", pages[1], Tail(pages))}
                  : pages \in pages_to_scan(rd.internal_links)}

\* lines 331-346: the domain-match decision and the start of the expanded search
Level3(rd) ==
    IF \E a \in rd.emails : SplitRaises(a) THEN {Raise(rd)}
    ELSE IF ~\E a \in rd.emails : is_domain_match(a, rd.main_page_url)
    THEN UNION {IF pages = <<>> THEN Finish(rd)
                ELSE {StartFetch(rd, "expanded", pages[1], Tail(pages))}
                  : pages \in pages_to_scan(rd.internal_links)}
    ELSE Finish(rd)

\* a level 2 that never finds a contact page
no_contact_page(links, base_url) == {None}

\* best_contact_page: None, or the head of the sorted priority-1 links
best_contact_pages(links, base_url) ==
    IF p1_links(links) = {} THEN {None}
    ELSE {IF sort_contact_pages_by_priority(order, base_url) = <<>> THEN None
          ELSE sort_contact_pages_by_priority(order, base_url)[1]
            : order \in Orderings(p1_links(links))}

\* lines 309-329: the choice of the contact page
Level2(rd, page) ==
    LET links == get_all_internal_links(page, rd.main_page_url)
        rd2   == [rd EXCEPT !.internal_links = links]
    IN  UNION {IF best = None THEN Level3(rd2)
               ELSE {StartFetch([rd2 EXCEPT !.contact_page = best], "contact", best, <<>>)}
                 : best \in best_contact_pages(links, rd.main_page_url)}

\* lines 300-307: the early exit on a "golden" e-mail of the home page
EarlyExit(rd, prioritized) ==
    Return([rd EXCEPT !.listed = TRUE, !.list = filter_and_limit_emails(prioritized),
                      !.emails = {}, !.contact_page = HomePageMarker],
           SuccessOnHomePage)

\* the test of line 302
golden(prioritized) == prioritized # <<>> /\ prioritized[1].score >= 100

\* the rankings of the home page candidates, over the iteration orders of all_found_emails
home_rankings(page) ==
    {prioritize_emails_by_relevance(get_emails_with_context(page, order), page.final)
        : order \in Orderings(all_found_emails(page))}

\* a level 1 that goes on to the later levels when the home page gave no content
AfterHomeGoesOn(rd, outcome) ==
    IF outcome = "close_raises" THEN {Raise(rd)}
    ELSE IF outcome = "fail" THEN Level3(rd)
    ELSE LET page == Web(rd.cur)
             rd1  == [rd EXCEPT !.main_page_url = page.final,
                                !.emails = @ \cup all_found_emails(page),
                                !.loaded = @ \cup {Len(rd.fetches)}]
         IN  IF \E a \in all_found_emails(page) : SplitRaises(a) THEN {Raise(rd1)}
             ELSE Level2(rd1, page)

\* lines 290-307: what follows the home page fetch
AfterHome(rd, outcome) ==
    IF outcome = "close_raises" THEN {Raise(rd)}
    ELSE IF outcome = "fail" THEN {Return(rd, Unreachable)}
    ELSE LET page == Web(rd.cur)
             rd1  == [rd EXCEPT !.main_page_url = page.final,
                                !.emails = @ \cup all_found_emails(page),
                                !.loaded = @ \cup {Len(rd.fetches)}]
             rankings == home_rankings(page)
         IN  IF \E a \in all_found_emails(page) : SplitRaises(a) THEN {Raise(rd1)}
             ELSE {EarlyExit(rd1, prioritized) : prioritized \in {r \in rankings : golden(r)}}
                  \cup (IF \E r \in rankings : ~golden(r) THEN Level2(rd1, page) ELSE {})

\* _scan_single_page_for_emails and the update of result_data["emails"]
Scanned(rd, outcome) ==
    IF outcome = "ok"
    THEN [rd EXCEPT !.emails = @ \cup all_found_emails(Web(rd.cur)),
                    !.loaded = @ \cup {Len(rd.fetches)}]
    ELSE rd

\* a level 2 that gives the site up when its contact page does not load
AfterContactGivesUp(rd, outcome) ==
    IF outcome = "close_raises" THEN {Raise(rd)}
    ELSE IF outcome = "fail" THEN {Return(rd, Unreachable)}
    ELSE Level3(Scanned(rd, outcome))

\* lines 326-327: what follows the contact page fetch
AfterContact(rd, outcome) ==
    IF outcome = "close_raises" THEN {Raise(rd)} ELSE Level3(Scanned(rd, outcome))

\* lines 343-346: what follows an expanded-search fetch
AfterExpanded(rd, outcome) ==
    IF outcome = "close_raises" THEN {Raise(rd)}
    ELSE IF rd.todo # <<>>
    THEN {StartFetch(Scanned(rd, outcome), "expanded", rd.todo[1], Tail(rd.todo))}
    ELSE Finish(Scanned(rd, outcome))

\* a crawl that goes to the contact level without the home page
AfterGateContactFirst(rd) ==
    IF normalize_url(rd.url) = None THEN Return(rd, InvalidUrl)
    ELSE StartFetch(rd, "contact", normalize_url(rd.url), <<>>)

\* lines 280-290: normalisation and the start of the home page fetch
AfterGate(rd) ==
    IF normalize_url(rd.url) = None THEN Return(rd, InvalidUrl)
    ELSE StartFetch(rd, "home", normalize_url(rd.url), <<>>)

Fetching == {"home", "contact", "expanded"}

\* the try block from the await that has just ended to the next await or return
TryBlock(rd, outcome) ==
    CASE rd.pc = "home" -> AfterHome(rd, outcome)
      [] rd.pc = "contact" -> AfterContact(rd, outcome)
      [] rd.pc = "expanded" -> AfterExpanded(rd, outcome)

\* try ... except Exception
Resume(rd, outcome) == {Caught(r) : r \in TryBlock(rd, outcome)}

\* the coroutine is over, with a result or with an exception
Finished == {"returned", "raised"}

(***************************************************************************)
(* Float arithmetic of the progress percentage                             *)
(***************************************************************************)

\* a Python float (IEEE 754 binary64) has a significand of 53 bits: here the leading
\* bit and four limbs of 13 bits, <<top, l1, l2, l3, l4>>, the value being
\* (top + l1/Limb + l2/Limb^2 + l3/Limb^3 + l4/Limb^4) / 2^scale
Limb == 8192

RECURSIVE Pow2(_)
Pow2(k) == IF k = 0 THEN 1 ELSE 2 * Pow2(k - 1)

RECURSIVE Scale(_, _)
\* the least k with num * 2^k >= den
Scale(num, den) == IF num >= den THEN 0 ELSE 1 + Scale(2 * num, den)

RECURSIVE BitLen(_)
\* the number of binary digits of a positive integer
BitLen(x) == IF x <= 1 THEN 1 ELSE 1 + BitLen(x \div 2)

\* the limbs brought back below Limb, the carries moving towards the top
CarryLimbs(l) ==
    LET s5 == l[5]
        s4 == l[4] + s5 \div Limb
        s3 == l[3] + s4 \div Limb
        s2 == l[2] + s3 \div Limb
        s1 == l[1] + s2 \div Limb
    IN  <<s1, s2 % Limb, s3 % Limb, s4 % Limb, s5 % Limb>>

\* the same, the limbs computed once
Carry(l) == CHOOSE r \in {CarryLimbs(v) : v \in {l}} : TRUE

\* round-half-to-even of the lowest limb to a multiple of 2^drop
RoundLow(low, drop, sticky) ==
    LET kept == low \div Pow2(drop)
        rest == low % Pow2(drop)
        half == Pow2(drop) \div 2
        up   == drop > 0 /\ (rest > half \/ (rest = half /\ (sticky \/ kept % 2 = 1)))
    IN  (kept + (IF up THEN 1 ELSE 0)) * Pow2(drop)

\* completed / total: the true division of two positive integers, completed <= total,
\* correctly rounded to 53 bits
TrueDiv(num, den) ==
    LET k  == Scale(num, den)
        r0 == num * Pow2(k) - den
        d1 == (r0 * Limb) \div den
        r1 == (r0 * Limb) % den
        d2 == (r1 * Limb) \div den
        r2 == (r1 * Limb) % den
        d3 == (r2 * Limb) \div den
        r3 == (r2 * Limb) % den
        d4 == (r3 * Limb) \div den
        r4 == (r3 * Limb) % den
        up == 2 * r4 > den \/ (2 * r4 = den /\ d4 % 2 = 1)
    IN  [limbs |-> Carry(<<1, d1, d2, d3, d4 + (IF up THEN 1 ELSE 0)>>), scale |-> k]

\* the exact product p rounded once to 53 bits
Rounded(p, scale) ==
    LET drop == BitLen(p[1]) - 1
    IN  [limbs |-> Carry(<<p[1], p[2], p[3], p[4], RoundLow(p[5], drop, FALSE)>>),
         scale |-> scale]

\* x * 100: the exact product, rounded once to 53 bits
Times100(x) ==
    CHOOSE r \in {Rounded(p, x.scale) : p \in {Carry([i \in 1..5 |-> 100 * x.limbs[i]])}} :
        TRUE

\* int(x) for a float x >= 0: the digits before the binary point
IntOf(x) == x.limbs[1] \div Pow2(x.scale)

\* progress of line 270: int((completed / total) * 100)
progress(completed, total) ==
    CHOOSE p \in {IntOf(y) : y \in {Times100(x) : x \in {TrueDiv(completed, total)}}} : TRUE

(***************************************************************************)
(* Inputs and bounds                                                       *)
(***************************************************************************)

\* the lines a caller can put into the list of sites
Inputs ==
    {"https://acme.com", "acme.org", "acme.it", "not a url", "shop.io", "big.com", "dead.net",
     "twice.net", "corp.eu", "roma.it"}

\* the lines the lists of several sites are drawn from
BatchInputs == {"acme.it", "not a url"}

\* the lines _normalize_url is run on: with a scheme, with www., bare hosts, padded,
\* with a path, and unusable ones of each kind
NormalizeInputs ==
    {"https://acme.it", "http://acme.it", "https://acme.it/contatti", "http://www.acme.it",
     "https://acme it", "http://nodot", "https://", "https://a.b",
     "www.acme.it", " www.acme.it ", "www.acme it", "www.", "www.x", "www.a..it",
     "acme.it", " acme.it ", "acme.it/contatti", "shop.io", "a.b", ".it", "acme..it",
     "acme", "acme it.com", "not a url", "ftp://acme.it", "", " "}

\* the longest list of several sites
MaxUrls == 2

RECURSIVE ListsUpTo(_, _)
\* the lists of at most n elements of S
ListsUpTo(S, n) ==
    IF n = 0 THEN {<<>>}
    ELSE ListsUpTo(S, n - 1)
         \cup {Append(l, e) : l \in {m \in ListsUpTo(S, n - 1) : Len(m) = n - 1}, e \in S}

\* the answers of the existence check of bot.py line 171: a status, or an exception
HeadOutcomes == {"404", "200", "timeout"}

(***************************************************************************)
(* The steps of a crawl, tabulated                                         *)
(***************************************************************************)

\* the lines of the batches that are followed to their end
LiveInputs == {"acme.it", "not a url"}

\* the frames that follow a frame: after the throttle, or after the fetch it awaits
FrameNext(rd) ==
    IF rd.pc = "throttle" THEN {AfterGate(rd)}
    ELSE IF rd.pc \in Fetching
    THEN UNION {Resume(rd, outcome)
                  : outcome \in FetchOutcomes(rd.cur, TRUE) \cup FetchOutcomes(rd.cur, FALSE)}
    ELSE {}

RECURSIVE FramesFrom(_, _)
\* the frames reached from the frames in new, together with those seen
FramesFrom(seen, new) ==
    IF new = {} THEN seen
    ELSE FramesFrom(seen \cup new, UNION {FrameNext(rd) : rd \in new} \ (seen \cup new))

\* the frames a crawl of such a line can be in once it holds a permit
Frames == FramesFrom({}, {[NewFrame(url) EXCEPT !.pc = "throttle"] : url \in LiveInputs})

\* AfterGate on the frames waiting at the throttle
AfterGateOf == [rd \in {f \in Frames : f.pc = "throttle"} |-> AfterGate(rd)]

\* Resume on the frames awaiting a fetch, for each outcome of the fetch
ResumeOf ==
    [rd \in {f \in Frames : f.pc \in Fetching} |->
        [outcome \in FetchOutcomes(rd.cur, TRUE) \cup FetchOutcomes(rd.cur, FALSE) |->
            Resume(rd, outcome)]]

\* AfterGate, read from the table
AfterGateAt(rd) == AfterGateOf[rd]

(***************************************************************************)
(* State                                                                   *)
(***************************************************************************)

VARIABLES
    urls,          \* the list passed to scrape_emails_from_urls
    callback,      \* progress_callback: "none", "bot" (bot.py 131-152) or "raises"
    task,          \* task[i]: the frame of _scrape_single_site for urls[i]
    semaphore,     \* the permits left in asyncio.Semaphore(MAX_CONCURRENT_SITES)
    contexts,      \* the rendering contexts open in the browser
    done_queue,    \* the finished coroutines as_completed has not yielded yet
    results,       \* the results dict of scrape_emails_from_urls
    result_keys,   \* the keys of results in insertion order
    completed,     \* the counter of the collection loop
    calls,         \* the argument tuples progress_callback was awaited with, in order
    batch,         \* scrape_emails_from_urls: "running", "returned", "raised", "cancelled"
    browser,       \* the shared browser: "open" or "closed"
    proc,          \* _process_urls: "none" (no bot), "scanning", "verifying", "reported",
                   \* "failed", "cancelled"
    to_verify,     \* the items of urls_to_verify not checked yet
    retry_urls,    \* retry_urls of _process_urls
    banned_links,  \* banned_links of _process_urls, as pairs <<url, link>>
    checked,       \* history: the existence checks made, as pairs <<url, answer>> in order
    active_tasks,  \* self.active_tasks of the bot: user id -> the user's registered scan task
    scans,         \* scans[u]: the scan tasks created for user u that are not done
    documents,     \* the number of documents handled so far
    handled        \* history: the last document handled, as <<user, kind, verdict>>

vars ==
    <<urls, callback, task, semaphore, contexts, done_queue, results, result_keys,
      completed, calls, batch, browser, proc, to_verify, retry_urls, banned_links,
      checked, active_tasks, scans, documents, handled>>

batch_vars == <<task, semaphore, contexts, done_queue, results, result_keys, completed,
                calls, batch, browser>>

\* the bot's bookkeeping of scan tasks
task_vars == <<active_tasks, scans, documents, handled>>

bot_vars == <<proc, to_verify, retry_urls, banned_links, checked, active_tasks, scans,
              documents, handled>>

\* result_data as the caller sees it
ResultOf(rd) ==
    [emails_set |-> rd.emails, listed |-> rd.listed, emails |-> rd.list,
     contact_page |-> rd.contact_page, status |-> rd.status]

\* the addresses of a result, whether result_data["emails"] is still the set or the list
EmailsOf(r) == IF r.listed THEN Range(r.emails) ELSE r.emails_set

\* len(result["emails"])
EmailCount(r) == IF r.listed THEN Len(r.emails) ELSE Cardinality(r.emails_set)

\* the users of the bot; the scan of Owner is the one followed step by step
Users == {"u1", "u2"}

Owner == "u1"

\* the state after the first lines of scrape_emails_from_urls (248-262); with the bot as
\* the caller, after handle_document has accepted the first document of Owner
StartBatch(list, cb, caller) ==
    /\ urls = list
    /\ callback = cb
    /\ task = [i \in 1..Len(list) |-> NewFrame(list[i])]
    /\ semaphore = MAX_CONCURRENT_SITES
    /\ contexts = 0
    /\ done_queue = <<>>
    /\ results = <<>>
    /\ result_keys = <<>>
    /\ completed = 0
    /\ calls = <<>>
    /\ batch = "running"
    /\ browser = "open"
    /\ proc = caller
    /\ to_verify = <<>>
    /\ retry_urls = <<>>
    /\ banned_links = {}
    /\ checked = <<>>
    /\ active_tasks = [u \in (IF caller = "none" THEN {} ELSE {Owner}) |-> 1]
    /\ scans = [u \in Users |-> IF caller # "none" /\ u = Owner THEN {1} ELSE {}]
    /\ documents = IF caller = "none" THEN 0 ELSE 1
    /\ handled = IF caller = "none" THEN <<>> ELSE <<Owner, "urls", "started">>

\* a list of one site, or a list of several sites; from the bot (a non-empty list,
\* bot.py 106-108, and the bot's own callback) or from a direct caller
InputLists == {<<u>> : u \in Inputs} \cup ListsUpTo(BatchInputs, MaxUrls)

Init ==
    \E list \in InputLists :
        \/ list # <<>> /\ StartBatch(list, "bot", "scanning")
        \/ \E cb \in {"none", "raises"} : StartBatch(list, cb, "none")

(***************************************************************************)
(* The site crawls                                                         *)
(***************************************************************************)

\* async with semaphore: a permit is taken
Acquire(i) ==
    /\ task[i].pc = "queued"
    /\ semaphore > 0
    /\ semaphore' = semaphore - 1
    /\ task' = [task EXCEPT ![i].pc = "throttle"]
    /\ UNCHANGED <<urls, callback, contexts, done_queue, results, result_keys, completed,
                   calls, batch, browser>>
    /\ UNCHANGED bot_vars

\* a step that never gives the permit back
StepKeepsPermit(i, rd, closed) ==
    /\ task' = [task EXCEPT ![i] = rd]
    /\ contexts' = IF browser = "open"
                   THEN contexts - closed + (IF rd.pc \in Fetching THEN 1 ELSE 0)
                   ELSE 0
    /\ semaphore' = semaphore
    /\ done_queue' = IF rd.pc \in Finished THEN Append(done_queue, i) ELSE done_queue

\* the effect of a frame reaching its next await or its return: a context is opened
\* for a fetch; on return the permit is given back and as_completed sees the result
Step(i, rd, closed) ==
    /\ task' = [task EXCEPT ![i] = rd]
    /\ contexts' = IF browser = "open"
                   THEN contexts - closed + (IF rd.pc \in Fetching THEN 1 ELSE 0)
                   ELSE 0
    /\ semaphore' = semaphore + (IF rd.pc \in Finished THEN 1 ELSE 0)
    /\ done_queue' = IF rd.pc \in Finished THEN Append(done_queue, i) ELSE done_queue

\* async with self.throttler, then lines 280-290, which lead to the frame rd
PassThrottleTo(i, rd) ==
    /\ task[i].pc = "throttle"
    /\ Step(i, rd, 0)
    /\ UNCHANGED <<urls, callback, results, result_keys, completed, calls, batch, browser>>
    /\ UNCHANGED bot_vars

\* async with self.throttler, then lines 280-290
PassThrottle(i) == PassThrottleTo(i, AfterGate(task[i]))

\* the same step, read from the table of the crawl's steps
PassThrottleLive(i) == PassThrottleTo(i, AfterGateAt(task[i]))

\* _get_page_content_with_js returns or raises, and the crawl runs on to its next await:
\* resumed[outcome] holds the frames that follow the outcome
FetchReturnsTo(i, resumed) ==
    /\ task[i].pc \in Fetching
    /\ \E outcome \in FetchOutcomes(task[i].cur, browser = "open") :
         \E rd \in resumed[outcome] :
            Step(i, rd, IF outcome = "close_raises" THEN 0 ELSE 1)
    /\ UNCHANGED <<urls, callback, results, result_keys, completed, calls, batch, browser>>
    /\ UNCHANGED bot_vars

\* _get_page_content_with_js returns or raises, and the crawl runs on to its next await
FetchReturns(i) ==
    FetchReturnsTo(i, [outcome \in FetchOutcomes(task[i].cur, browser = "open") |->
                          Resume(task[i], outcome)])

\* the same step, read from the table of the crawl's steps
FetchReturnsLive(i) == FetchReturnsTo(i, ResumeOf[task[i]])

(***************************************************************************)
(* scrape_emails_from_urls: the collection loop                            *)
(***************************************************************************)

\* a store that writes the result into every entry of the map
StoreAll(d, url, r) == [k \in DOMAIN d \cup {url} |-> r]

\* results[url] = result_data
Store(d, url, r) == [k \in DOMAIN d \cup {url} |-> IF k = url THEN r ELSE d[k]]

\* one turn of the loop over as_completed (lines 265-271).  await coro raises what the
\* coroutine raised; await progress_callback(...) raises what the callback raises.  An
\* exception leaves both async with blocks: the browser goes down with Playwright, and
\* its contexts with it
Collect ==
    /\ batch = "running"
    /\ done_queue # <<>>
    /\ LET i == Head(done_queue)
           url == task[i].url
           escaped == task[i].pc = "raised"
       IN  /\ done_queue' = Tail(done_queue)
           \* the coroutine is over: its frame is gone, its result lives on in results
           /\ task' = [task EXCEPT ![i] = [NewFrame(url) EXCEPT !.pc = "collected"]]
           /\ results' = IF escaped THEN results ELSE Store(results, url, ResultOf(task[i]))
           /\ result_keys' = IF escaped \/ url \in DOMAIN results THEN result_keys
                             ELSE Append(result_keys, url)
           /\ completed' = IF escaped \/ callback = "none" THEN completed ELSE completed + 1
           /\ calls' = IF escaped \/ callback = "none" THEN calls
                       ELSE Append(calls, <<progress(completed + 1, Len(urls)),
                                            completed + 1, Len(urls)>>)
           /\ \E raised \in (IF escaped THEN {TRUE}
                              ELSE IF callback = "raises" THEN {TRUE, FALSE}
                              ELSE {FALSE}) :
                /\ batch' = IF raised THEN "raised" ELSE batch
                /\ browser' = IF raised THEN "closed" ELSE browser
                /\ contexts' = IF raised THEN 0 ELSE contexts
    /\ UNCHANGED <<urls, callback, semaphore>>
    /\ UNCHANGED bot_vars

\* lines 273-274: the loop is over, the browser is closed, results is returned
BatchReturns ==
    /\ batch = "running"
    /\ \A i \in 1..Len(urls) : task[i].pc = "collected"
    /\ batch' = "returned"
    /\ browser' = "closed"
    /\ contexts' = 0
    /\ UNCHANGED <<urls, callback, task, semaphore, done_queue, results, result_keys,
                   completed, calls>>
    /\ UNCHANGED bot_vars

\* cancel_task (bot.py 234-245) cancels the task of _process_urls while it awaits
\* scrape_emails_from_urls: CancelledError is raised at the await of the collection loop
\* and leaves both async with blocks, so the browser goes down; the handler of bot.py
\* 222-226 reports the cancellation.  The tasks as_completed made of the site
\* coroutines are not cancelled with it
Cancel ==
    /\ proc = "scanning"
    /\ batch = "running"
    /\ batch' = "cancelled"
    /\ browser' = "closed"
    /\ contexts' = 0
    /\ proc' = "cancelled"
    /\ UNCHANGED <<urls, callback, task, semaphore, done_queue, results, result_keys,
                   completed, calls, to_verify, retry_urls, banned_links, checked>>
    /\ UNCHANGED task_vars

(***************************************************************************)
(* _process_urls: the verification and retry phase (bot.py 159-232)        *)
(***************************************************************************)

\* urls_to_verify (line 165), in the order of results.items()
urls_to_verify ==
    SelectSeq(result_keys,
              LAMBDA u : EmailCount(results[u]) = 0 /\ results[u].contact_page # "")

StartVerify ==
    /\ proc = "scanning"
    /\ batch = "returned"
    /\ proc' = "verifying"
    /\ to_verify' = urls_to_verify
    /\ UNCHANGED <<urls, callback, retry_urls, banned_links, checked>>
    /\ UNCHANGED task_vars
    /\ UNCHANGED batch_vars

\* a test that queues the site again on every answer but a 200
requeued_unless_ok(answer) == answer # "200"

\* if response.status == 404 (line 172); an exception of the request is caught at line
\* 176 and the test is not reached
requeued(answer) == answer = "404"

\* session.head(contact_page): only a 404 queues the site again (lines 170-177)
HeadCheck ==
    /\ proc = "verifying"
    /\ to_verify # <<>>
    /\ \E answer \in HeadOutcomes :
         LET url == Head(to_verify)
         IN  /\ retry_urls' = IF requeued(answer) THEN Append(retry_urls, url)
                              ELSE retry_urls
             /\ banned_links' = IF requeued(answer)
                                THEN banned_links \cup {<<url, results[url].contact_page>>}
                                ELSE banned_links
             /\ checked' = Append(checked, <<url, answer>>)
    /\ to_verify' = Tail(to_verify)
    /\ UNCHANGED <<urls, callback, proc>>
    /\ UNCHANGED task_vars
    /\ UNCHANGED batch_vars

\* lines 179-182: scrape_emails_from_urls(retry_urls, banned_links=banned_links).  The
\* function takes (urls, progress_callback=None): the call raises TypeError before
\* its body runs, and the handler of line 227 ends the task
Retry ==
    /\ proc = "verifying"
    /\ to_verify = <<>>
    /\ retry_urls # <<>>
    /\ proc' = "failed"
    /\ UNCHANGED <<urls, callback, to_verify, retry_urls, banned_links, checked>>
    /\ UNCHANGED task_vars
    /\ UNCHANGED batch_vars

\* lines 184-216: the report is built from results
Report ==
    /\ proc = "verifying"
    /\ to_verify = <<>>
    /\ retry_urls = <<>>
    /\ proc' = "reported"
    /\ UNCHANGED <<urls, callback, to_verify, retry_urls, banned_links, checked>>
    /\ UNCHANGED task_vars
    /\ UNCHANGED batch_vars

Next ==
    \/ \E i \in 1..Len(urls) : Acquire(i)
    \/ \E i \in 1..Len(urls) : PassThrottle(i)
    \/ \E i \in 1..Len(urls) : FetchReturns(i)
    \/ Collect
    \/ BatchReturns
    \/ Cancel
    \/ StartVerify
    \/ HeadCheck
    \/ Retry
    \/ Report

Spec == Init /\ [][Next]_vars

\* more sites than permits: the bot's batch over GateUrls copies of one site
GateUrls == 4

InitGate == StartBatch([i \in 1..GateUrls |-> "acme.it"], "bot", "scanning")

SpecGate == InitGate /\ [][Next]_vars

\* the bot's batch over two sites whose contact pages can yield nothing
InitPair == StartBatch(<<"acme.it", "twice.net">>, "bot", "scanning")

SpecPair == InitPair /\ [][Next]_vars

\* a direct caller's batch of one such line, without a callback
InitNormalize == \E raw \in NormalizeInputs : StartBatch(<<raw>>, "none", "none")

\* the crawl of the line and the collection of its result
NextNormalize ==
    \/ \E i \in 1..Len(urls) : Acquire(i)
    \/ \E i \in 1..Len(urls) : PassThrottle(i)
    \/ \E i \in 1..Len(urls) : FetchReturns(i)
    \/ Collect
    \/ BatchReturns

SpecNormalize == InitNormalize /\ [][NextNormalize]_vars

\* more sites than permits, for the batches followed to their end
LiveUrls == 4

\* a direct caller's batch, with no callback or with one that can raise, over the empty
\* list or over LiveUrls lines, two of them sites and the others unusable
InitLive ==
    \E list \in {<<>>, [i \in 1..LiveUrls |-> IF i <= 2 THEN "acme.it" ELSE "not a url"]} :
        \E cb \in {"none", "raises"} : StartBatch(list, cb, "none")

\* the event loop runs every coroutine that is ready: a crawl waiting for a free permit
\* or for the throttle gets its turn, the collection loop takes each finished crawl,
\* and, by assumption, every page fetch comes back
Fairness ==
    /\ WF_vars(\E i \in 1..Len(urls) : Acquire(i))
    /\ WF_vars(\E i \in 1..Len(urls) : PassThrottleLive(i))
    /\ WF_vars(\E i \in 1..Len(urls) : FetchReturnsLive(i))
    /\ WF_vars(Collect)
    /\ WF_vars(BatchReturns)

\* the crawls and the collection loop of such a batch
NextLive ==
    \/ \E i \in 1..Len(urls) : Acquire(i)
    \/ \E i \in 1..Len(urls) : PassThrottleLive(i)
    \/ \E i \in 1..Len(urls) : FetchReturnsLive(i)
    \/ Collect
    \/ BatchReturns

SpecLive == InitLive /\ [][NextLive]_vars /\ Fairness

(***************************************************************************)
(* The bot's scan tasks: handle_document and the end of _process_urls      *)
(***************************************************************************)

\* the documents handled in one run of the model
MaxDocuments == 4

\* the documents a user can send: over the size limit, not a .txt file, one whose
\* download or reading fails, one without a line, and one with lines
DocumentKinds == {"too_big", "not_txt", "unreadable", "empty", "urls"}

\* the lists of lines read from the documents of Owner
DocumentLists == {<<"acme.it">>, <<"not a url">>}

\* the states in which _process_urls has left its try block: the report was sent, an
\* exception was handled (line 227), the cancellation was handled (line 222)
Ended == {"reported", "failed", "cancelled"}

\* a test that never finds a running task
never_active(u) == FALSE

\* user_id in self.active_tasks and not self.active_tasks[user_id].done()
has_active_task(u) == u \in DOMAIN active_tasks /\ active_tasks[u] \in scans[u]

\* self.active_tasks[user_id] = task
Register(d, u, t) == [k \in DOMAIN d \cup {u} |-> IF k = u THEN t ELSE d[k]]

\* if user_id in self.active_tasks: del self.active_tasks[user_id]
Unregister(d, u) == [k \in DOMAIN d \ {u} |-> d[k]]

\* what handle_document answers to a document of the given kind (lines 66-116)
Verdict(u, kind) ==
    IF kind \in {"too_big", "not_txt"} THEN "refused"
    ELSE IF has_active_task(u) THEN "busy"
    ELSE IF kind = "unreadable" THEN "failed"
    ELSE IF kind = "empty" THEN "empty"
    ELSE "started"

\* handle_document, from the first check to the registration of the task or to the
\* refusal.  The application handles one update at a time, so no second call of a
\* handler runs between the test of line 78 and the registration of line 116
HandleDocument(u, kind, list) ==
    /\ documents < MaxDocuments
    /\ documents' = documents + 1
    /\ handled' = <<u, kind, Verdict(u, kind)>>
    /\ IF Verdict(u, kind) = "started"
       THEN /\ active_tasks' = Register(active_tasks, u, documents + 1)
            /\ scans' = [scans EXCEPT ![u] = @ \cup {documents + 1}]
            /\ IF u = Owner
               THEN /\ urls' = list
                    /\ callback' = "bot"
                    /\ task' = [i \in 1..Len(list) |-> NewFrame(list[i])]
                    /\ semaphore' = MAX_CONCURRENT_SITES
                    /\ contexts' = 0
                    /\ done_queue' = <<>>
                    /\ results' = <<>>
                    /\ result_keys' = <<>>
                    /\ completed' = 0
                    /\ calls' = <<>>
                    /\ batch' = "running"
                    /\ browser' = "open"
                    /\ proc' = "scanning"
                    /\ to_verify' = <<>>
                    /\ retry_urls' = <<>>
                    /\ banned_links' = {}
                    /\ checked' = <<>>
               ELSE /\ UNCHANGED <<urls, callback, proc, to_verify, retry_urls,
                                   banned_links, checked>>
                    /\ UNCHANGED batch_vars
       ELSE /\ UNCHANGED <<active_tasks, scans>>
            /\ UNCHANGED <<urls, callback, proc, to_verify, retry_urls, banned_links,
                           checked>>
            /\ UNCHANGED batch_vars

\* the finally clause of _process_urls (lines 230-232) and the end of the task of Owner
ProcessEnds ==
    /\ proc \in Ended
    /\ has_active_task(Owner)
    /\ scans' = [scans EXCEPT ![Owner] = @ \ {active_tasks[Owner]}]
    /\ active_tasks' = Unregister(active_tasks, Owner)
    /\ UNCHANGED <<urls, callback, proc, to_verify, retry_urls, banned_links, checked,
                   documents, handled>>
    /\ UNCHANGED batch_vars

\* the same end for the scan of another user, whose steps are not followed
OtherProcessEnds(u) ==
    /\ u # Owner
    /\ \E t \in scans[u] :
         /\ scans' = [scans EXCEPT ![u] = @ \ {t}]
         /\ active_tasks' = Unregister(active_tasks, u)
    /\ UNCHANGED <<urls, callback, proc, to_verify, retry_urls, banned_links, checked,
                   documents, handled>>
    /\ UNCHANGED batch_vars

\* the first document of Owner has been accepted and its scan has been started
InitBot == \E list \in DocumentLists : StartBatch(list, "bot", "scanning")

NextBot ==
    \/ Next
    \/ \E u \in Users, kind \in DocumentKinds, list \in DocumentLists :
          HandleDocument(u, kind, list)
    \/ ProcessEnds
    \/ \E u \in Users : OtherProcessEnds(u)

SpecBot == InitBot /\ [][NextBot]_vars

\* the longest list of the batches whose progress reports are followed
MaxTotal == 50

\* a batch of total unusable lines at the moment every crawl has returned (line 285) and
\* the collection loop has not taken its first result yet
InitProgress ==
    \E total \in 1..MaxTotal :
        /\ urls = [i \in 1..total |-> "not a url"]
        /\ callback = "bot"
        /\ task = [i \in 1..total |-> AfterGate(NewFrame("not a url"))]
        /\ semaphore = MAX_CONCURRENT_SITES
        /\ contexts = 0
        /\ done_queue = [i \in 1..total |-> i]
        /\ results = <<>>
        /\ result_keys = <<>>
        /\ completed = 0
        /\ calls = <<>>
        /\ batch = "running"
        /\ browser = "open"
        /\ proc = "scanning"
        /\ to_verify = <<>>
        /\ retry_urls = <<>>
        /\ banned_links = {}
        /\ checked = <<>>
        /\ active_tasks = [u \in {Owner} |-> 1]
        /\ scans = [u \in Users |-> IF u = Owner THEN {1} ELSE {}]
        /\ documents = 1
        /\ handled = <<Owner, "urls", "started">>

\* the collection loop and the return of the batch
NextProgress == Collect \/ BatchReturns

SpecProgress == InitProgress /\ [][NextProgress]_vars

(***************************************************************************)
(* Vocabulary of the claims                                                *)
(***************************************************************************)

Tasks == 1..Len(urls)

\* the result the coroutine of urls[i] has returned and as_completed has not yet yielded
Returned(i) == task[i].pc = "returned"

\* the home page of the crawl of urls[i] was fetched and read
HomeLoaded(i) == task[i].main_page_url # ""

\* the home page the crawl of urls[i] is given
HomePage(i) == Web(normalize_url(task[i].url))

\* the page carries a mailto: link inside its footer whose address is on the site's domain
HasFooterMailto(page) == \E a \in page.footer : is_domain_match(a, page.final)

\* the top-ranked candidate of the page is such a footer mailto: address, in every ranking
TopIsFooterMailto(page) ==
    \A r \in home_rankings(page) :
        r # <<>> /\ r[1].address \in page.footer /\ r[1].is_domain_match

\* the crawl of urls[i] has passed the normalisation of line 282
Normalised(i) == task[i].pc \in Fetching \cup {"returned"}

\* the URL the crawl of urls[i] started at, None when it was turned away as invalid
StartedAt(i) ==
    IF task[i].fetches # <<>> THEN task[i].fetches[1]
    ELSE IF task[i].status = InvalidUrl THEN None
    ELSE "<no fetch>"

\* the first well-formed URL of a list of forms, None when there is none
FirstWellFormed(forms) ==
    IF \A i \in 1..Len(forms) : ~ValidUrl(forms[i]) THEN None
    ELSE forms[CHOOSE i \in 1..Len(forms) :
                   ValidUrl(forms[i]) /\ \A j \in 1..(i - 1) : ~ValidUrl(forms[j])]

\* the rules of normalisation as stated: (a) a line with a scheme, (b) a line starting
\* with www., (c) any other line with a dot and no blank, each decided on its own
RuleResult(raw) ==
    LET line == Strip(raw, " ")
    IN  IF StartsWith(line, "http://") \/ StartsWith(line, "https://")
        THEN FirstWellFormed(<<line>>)
        ELSE IF StartsWith(line, "www.")
        THEN FirstWellFormed(<<"https://" \o line>>)
        ELSE IF Contains(line, ".") /\ ~Contains(line, " ")
        THEN FirstWellFormed(<<"https://" \o line, "https://www." \o line,
                               "http://" \o line, "http://www." \o line>>)
        ELSE None

\* the priority-1 links of a home page
ContactLinks(home) == p1_links(get_all_internal_links(home, home.final))

\* the page is served and shows exactly one address, in plain text, on the site's domain
OnePlainAddress(link, site_url) ==
    /\ link \in WebUrls
    /\ Cardinality(all_found_emails(Web(link))) = 1
    /\ \A a \in all_found_emails(Web(link)) :
          a \notin Web(link).mailto /\ a \notin Web(link).ctx /\ is_domain_match(a, site_url)

\* the home page shows no address and links to exactly one priority-1 page, which shows
\* one plain-text address of the site's domain
ContactScenario(home) ==
    /\ all_found_emails(home) = {}
    /\ LET links == ContactLinks(home)
       IN  Cardinality(links) = 1 /\ \A link \in links : OnePlainAddress(link, home.final)

\* every fetch of the crawl of urls[i] came back with content and nothing was raised
AllLoaded(i) == ~task[i].exc /\ task[i].loaded = 1..Len(task[i].fetches)

\* an address lower-cased and trimmed
Trimmed(address) == Strip(Lower(address), " ")

\* the total score the final ranking of lines 349-350 gives an address of urls[i]
FinalScore(i, address) == total_score([address |-> address, score |-> 0], task[i].main_page_url)

\* the addresses shown by the pages the crawl of urls[i] has loaded
Shown(i) == UNION {all_found_emails(Web(task[i].fetches[k])) : k \in task[i].loaded}

\* the crawl of urls[i] has returned through the final ranking and filtering
DonePath(i) == Returned(i) /\ task[i].listed /\ task[i].status # SuccessOnHomePage

\* the number of fetches of levels 1 and 2 the crawl of urls[i] has issued
Levels12(i) == 1 + (IF task[i].contact_page = "" THEN 0 ELSE 1)

\* the addresses the crawl of urls[i] has gathered at levels 1 and 2
Accumulated(i) ==
    UNION {all_found_emails(Web(task[i].fetches[k])) :
               k \in task[i].loaded \cap 1..Levels12(i)}

\* one of them is on the site's domain
Matched(i) == \E a \in Accumulated(i) : is_domain_match(a, task[i].main_page_url)

\* the number of fetches of the expanded search of urls[i]
ExpandedFetches(i) == Len(task[i].fetches) - Levels12(i)

\* the highest context score an address of the crawl of urls[i] received on a loaded page
BestContext(i, address) ==
    LET scores == {context_score(Web(task[i].fetches[k]), address) :
                      k \in {n \in task[i].loaded :
                                address \in all_found_emails(Web(task[i].fetches[n]))}}
    IN  IF scores = {} THEN 0 ELSE CHOOSE m \in scores : \A n \in scores : n <= m

\* the total score of the address with that context score included
ScoreWithContext(i, address) ==
    total_score([address |-> address, score |-> BestContext(i, address)],
                task[i].main_page_url)

RECURSIVE StatedPrefixScore(_, _)
\* 13 minus the index, counted from 0, of the first corporate prefix from the k-th on
\* that occurs in the local part; 0 when none does
StatedPrefixScore(local, k) ==
    IF k > Len(corporate_prefixes) THEN 0
    ELSE IF Contains(local, corporate_prefixes[k]) THEN 13 - (k - 1)
    ELSE StatedPrefixScore(local, k + 1)

\* totalScore = (100 if domain-matching else 0) + contextScore + prefixScore
StatedScore(cand, site_url) ==
    (IF is_domain_match(cand.address, site_url) THEN 100 ELSE 0)
    + cand.score + StatedPrefixScore(email_prefix(cand.address), 1)

\* the place of an address in a sequence of candidates of distinct addresses
PlaceOf(address, cands) == CHOOSE n \in 1..Len(cands) : cands[n].address = address

\* out holds the candidates of cands, each with its stated score, in non-increasing
\* order of score, candidates of equal score in the order they have in cands
RankedAsStated(cands, out, site_url) ==
    /\ Len(out) = Len(cands)
    /\ {out[k].address : k \in 1..Len(out)} = {cands[k].address : k \in 1..Len(cands)}
    /\ \A k \in 1..Len(out) :
          out[k].total_score = StatedScore(cands[PlaceOf(out[k].address, cands)], site_url)
    /\ \A j, k \in 1..Len(out) :
          j < k =>
              /\ out[j].total_score >= out[k].total_score
              /\ out[j].total_score = out[k].total_score =>
                    PlaceOf(out[j].address, cands) < PlaceOf(out[k].address, cands)

\* the stated score of an address of a page, with the context score the page gives it
PageScore(page, address) ==
    StatedScore([address |-> address, score |-> context_score(page, address)], page.final)

\* the pages the crawl of urls[i] has loaded
LoadedPages(i) == {Web(task[i].fetches[k]) : k \in task[i].loaded}

\* the bucket of a priority-1 link as stated: 1 for a path that is exactly one of the
\* contact words, 2 for any other path of one segment, 3 for a path of several segments
StatedBucket(link) ==
    LET path == Strip(path_lower(link), "/")
    IN  IF \E n \in 1..Len(exact_paths) : path = exact_paths[n] THEN 1
        ELSE IF ~Contains(path, "/") THEN 2
        ELSE 3

\* link l is not after link m in the order (bucket, path length)
NotAfter(l, m) ==
    \/ StatedBucket(l) < StatedBucket(m)
    \/ /\ StatedBucket(l) = StatedBucket(m)
       /\ Len(urlparse(l).path) <= Len(urlparse(m).path)

\* the home page fetch of urls[i] is over and gave no content
HomeFailed(i) ==
    /\ task[i].fetches # <<>>
    /\ task[i].pc # "home"
    /\ 1 \notin task[i].loaded
    /\ ~task[i].exc

\* after the home page was loaded, a later fetch of the crawl of urls[i] is over and
\* gave no content, and nothing was raised
LaterFailed(i) ==
    /\ HomeLoaded(i)
    /\ ~task[i].exc
    /\ \E k \in 2..Len(task[i].fetches) :
          /\ k \notin task[i].loaded
          /\ k < Len(task[i].fetches) \/ task[i].pc \notin Fetching

\* the list of urls[i] holds every address shown by a loaded page that passes the filter
\* of _filter_and_limit_emails, unless the list is full
KeptLoaded(i) ==
    \A a \in Shown(i) :
        \/ denylisted(email_key(a))
        \/ ~ValidEmail(email_key(a))
        \/ \E n \in 1..Len(task[i].list) : email_key(task[i].list[n]) = email_key(a)
        \/ Len(task[i].list) = MAX_EMAILS_PER_DOMAIN

\* the first-pass result of the site has no emails and names a contact page
Verifiable(u) == EmailCount(results[u]) = 0 /\ results[u].contact_page # ""

\* the verification pass of _process_urls has begun
Verifying == proc \in {"verifying", "reported", "failed"}

\* the statuses a finished crawl can carry
TerminalStatuses ==
    {InvalidUrl, Unreachable, SuccessOnHomePage, Success, ContactPageFound_NoEmail,
     NoEmailFound, Error}

\* what a crawl returns comes from the pages it fetched and loaded itself: its
\* addresses are shown by those pages, and its contact page, if any, is a contact link
\* of its own home page
ResultsFromOwnCrawl ==
    \A i \in Tasks :
        Returned(i) =>
            /\ EmailsOf(ResultOf(task[i])) \subseteq Shown(i)
            /\ task[i].contact_page \notin {"", HomePageMarker} =>
                  /\ task[i].contact_page \in ContactLinks(HomePage(i))
                  /\ task[i].fetches[2] = task[i].contact_page

\* the entry of a site changes only to what a crawl of that site has just returned, and
\* no entry is ever removed
StoredByOwnCrawl ==
    /\ DOMAIN results \subseteq DOMAIN results'
    /\ \A u \in DOMAIN results' :
          (u \notin DOMAIN results \/ results'[u] # results[u]) =>
              \E i \in Tasks :
                  /\ Returned(i)
                  /\ task[i].url = u
                  /\ task'[i].pc = "collected"
                  /\ results'[u] = ResultOf(task[i])

\* the batch is over and every crawl has its result and has given its permit back; a
\* batch without a callback, or over the empty list, has returned a result for every
\* site of the list
Settled ==
    /\ batch # "running"
    /\ \A i \in Tasks : task[i].pc \in {"returned", "collected"}
    /\ semaphore = MAX_CONCURRENT_SITES
    /\ (callback = "none" \/ urls = <<>>) =>
          (batch = "returned" /\ DOMAIN results = Range(urls))

\* the smaller of two numbers
Min(a, b) == IF a < b THEN a ELSE b

\* the crawls past the semaphore that have not finished
InGate == {i \in Tasks : task[i].pc \in {"throttle"} \cup Fetching}

\* _process_urls has come to its end
ProcEnded == proc \in {"reported", "failed"}

(***************************************************************************)
(* The claims                                                              *)
(***************************************************************************)

\* C1: when the batch completes, the returned mapping holds exactly one result per entry
\* of the input list: as many results as input URLs.
C1_OneResultPerInputEntry ==
    batch = "returned" => Cardinality(DOMAIN results) = Len(urls)

\* C2: every result _scrape_single_site returns, whatever its status, holds at most
\* MAX_EMAILS_PER_DOMAIN addresses.
C2_EmailsWithinLimit ==
    \A i \in Tasks : Returned(i) => EmailCount(ResultOf(task[i])) <= MAX_EMAILS_PER_DOMAIN

\* C3: a site whose home page carries a footer mailto: link on the site's domain is
\* crawled with one fetch only, the home page fetch.
C3_FooterMailtoShortCircuits ==
    \A i \in Tasks :
        (Returned(i) /\ HomeLoaded(i) /\ HasFooterMailto(HomePage(i)))
            => task[i].fetches = <<normalize_url(task[i].url)>>

\* C4: when the top-ranked candidate of the home page is a footer mailto: address of the
\* site's domain, the result is the home page's ranked and filtered list, the home page
\* marker as contact page and the status SuccessOnHomePage.
C4_FooterMailtoResult ==
    \A i \in Tasks :
        (Returned(i) /\ HomeLoaded(i) /\ TopIsFooterMailto(HomePage(i)))
            => /\ task[i].status = SuccessOnHomePage
               /\ task[i].contact_page = HomePageMarker
               /\ task[i].listed
               /\ task[i].list \in {filter_and_limit_emails(r) : r \in home_rankings(HomePage(i))}

\* C5: no result of the batch, on any path of the crawl, holds a denylisted address.
C5_NoDenylistedAddressReturned ==
    \A u \in DOMAIN results : \A a \in EmailsOf(results[u]) : ~denylisted(email_key(a))

\* C6: a site whose recorded contact page answered the existence check with not-found is
\* crawled again with that link banned: the phase ends with the report, and the site's
\* result no longer names the banned link as its contact page.
C6_BannedLinkRecrawled ==
    \A pair \in banned_links :
        ProcEnded => proc = "reported" /\ results[pair[1]].contact_page # pair[2]

\* C7: when the verification/retry phase is over, the result map has an entry for every
\* site of the first pass and the report is generated from it, also when retry_urls is
\* not empty.
C7_RetryKeepsEveryEntryAndReports ==
    ProcEnded => proc = "reported" /\ DOMAIN results = Range(urls)

\* C8: a progress callback that raises does not abort the batch: nothing propagates out
\* of scrape_emails_from_urls.
C8_CallbackErrorSwallowed ==
    callback = "raises" => batch # "raised"

\* C9: an exception raised in a site's crawl is caught inside _scrape_single_site and
\* becomes an Error result; it never leaves the coroutine, and when the batch returns
\* every site of the list has its result.
C9_ExceptionsBecomeErrorResults ==
    /\ \A i \in Tasks : task[i].pc # "raised"
    /\ \A i \in Tasks : Returned(i) /\ task[i].exc => task[i].status = Error
    /\ callback # "raises" => batch # "raised"
    /\ batch = "returned" => \A i \in Tasks : urls[i] \in DOMAIN results

\* a crawl that raised has returned its Error result beside a crawl that succeeded
C9_Witness ==
    \E i, j \in Tasks :
        /\ Returned(i) /\ task[i].exc /\ task[i].status = Error
        /\ Returned(j) /\ task[j].status = Success

\* C10: at every moment the crawls past the semaphore, and the rendering contexts open at
\* once, number at most MAX_CONCURRENT_SITES, and every finished crawl has given its
\* permit back.
C10_GateBoundsCrawlsAndContexts ==
    /\ Cardinality(InGate) <= MAX_CONCURRENT_SITES
    /\ semaphore = MAX_CONCURRENT_SITES - Cardinality(InGate)
    /\ contexts <= MAX_CONCURRENT_SITES

\* C11: a supplied progress callback is invoked once after each completion, with
\* completed = 1, 2, ..., N in that order, total = N and percent = floor(100 * completed / N);
\* when the batch returns it has been invoked N times.
C11_ProgressCallbackContract ==
    callback = "bot" =>
        /\ Len(calls) = completed
        /\ \A j \in 1..Len(calls) : calls[j] = <<(100 * j) \div Len(urls), j, Len(urls)>>
        /\ batch = "returned" => Len(calls) = Len(urls)

C14_ContactPageScenario ==
    \A i \in Tasks :
        (Returned(i) /\ AllLoaded(i)) =>
            LET home == HomePage(i)
            IN  ContactScenario(home) =>
                    \E link \in ContactLinks(home) :
                        /\ task[i].fetches = <<normalize_url(task[i].url), link>>
                        /\ task[i].listed
                        /\ Range(task[i].list) = all_found_emails(Web(link))
                        /\ Len(task[i].list) = 1
                        /\ task[i].status = Success

\* the crawl of acme.it has returned sales@acme.it after its two fetches
C14_Witness ==
    \E i \in Tasks :
        /\ Returned(i) /\ AllLoaded(i) /\ ContactScenario(HomePage(i))
        /\ task[i].fetches = <<"https://acme.it", "https://acme.it/contatti">>
        /\ task[i].list = <<"sales@acme.it">>

\* C15: when the caller cancels a running batch, the batch unwinds only after every
\* in-flight page fetch has closed its context; afterwards no site crawl of the batch
\* is past the gate or runs on, and no result map is returned or reported.
C15_CancelledBatchIsQuiet ==
    batch = "cancelled" =>
        /\ \A i \in Tasks : task[i].pc \notin {"throttle"} \cup Fetching
        /\ proc = "cancelled"

C17_LightweightFetchFirst ==
    \A i \in Tasks :
        \A k \in 1..Len(task[i].fetches) :
            task[i].fetches[k] \in Range(simple_fetches(task[i]))

\* C18: within one crawl the levels run in order and one fetch at a time: the fetch in
\* flight is the last one issued; the contact page is fetched only after the home page
\* has been loaded and the early exit decided; an expanded page is fetched only after
\* the home page and, if one was chosen, the contact page.
C18_LevelsInOrder ==
    \A i \in Tasks :
        /\ task[i].pc \in Fetching <=> task[i].cur # ""
        /\ task[i].pc \in Fetching =>
              /\ task[i].fetches # <<>>
              /\ task[i].cur = task[i].fetches[Len(task[i].fetches)]
              /\ task[i].fetches[1] = normalize_url(task[i].url)
        /\ task[i].pc = "home" => Len(task[i].fetches) = 1 /\ ~HomeLoaded(i)
        /\ task[i].pc = "contact" =>
              /\ HomeLoaded(i) /\ 1 \in task[i].loaded
              /\ Len(task[i].fetches) = 2
              /\ task[i].cur = task[i].contact_page
              /\ task[i].status # SuccessOnHomePage
        /\ task[i].pc = "expanded" =>
              /\ HomeLoaded(i) /\ 1 \in task[i].loaded
              /\ Len(task[i].fetches) > Levels12(i)
              /\ task[i].contact_page # "" => task[i].fetches[2] = task[i].contact_page

\* an expanded page is being fetched after the home page and the contact page
C18_Witness ==
    \E i \in Tasks :
        /\ task[i].pc = "expanded"
        /\ task[i].contact_page # ""
        /\ Len(task[i].fetches) = 3

\* C19: after the contact-page step the expanded search runs if and only if none of the
\* addresses gathered from the home page and the contact page is on the site's domain:
\* with a matching address no priority-2 page is fetched; without one, the priority-2
\* pages (two at most) are.
C19_ExpandedSearchIffNoMatch ==
    \A i \in Tasks :
        /\ task[i].pc = "expanded" => ~Matched(i)
        /\ (Returned(i) /\ HomeLoaded(i) /\ Matched(i)) => ExpandedFetches(i) = 0
        /\ (Returned(i) /\ HomeLoaded(i) /\ ~Matched(i) /\ ~task[i].exc) =>
              ExpandedFetches(i) = Min(2, Cardinality(other_links(task[i].internal_links)))

\* one crawl has returned without an expanded fetch because of a matching address on
\* its contact page, though its home page links to a priority-2 page
C19_Witness ==
    \E i \in Tasks :
        /\ Returned(i) /\ HomeLoaded(i) /\ Matched(i)
        /\ other_links(get_all_internal_links(HomePage(i), HomePage(i).final)) # {}
        /\ Len(task[i].fetches) = 2

\* C20: the expanded search fetches at most 2 priority-2 pages, and none of them is a
\* page fetched earlier in the same crawl (the home page or the chosen contact page).
C20_ExpandedPagesFewAndNew ==
    \A i \in Tasks :
        /\ ExpandedFetches(i) <= 2
        /\ \A k \in 1..Len(task[i].fetches) :
              k > Levels12(i) =>
                  \A j \in 1..(k - 1) : task[i].fetches[j] # task[i].fetches[k]

\* C21: every page fetched after the home page of a crawl (the contact page and the
\* expanded pages) has a network location equal to that of the home page's final URL: a
\* link to a subdomain, or to a host whose name merely contains the site's, is never
\* fetched.
C21_FetchesStayOnHost ==
    \A i \in Tasks :
        HomeLoaded(i) =>
            \A k \in 2..Len(task[i].fetches) :
                urlparse(task[i].fetches[k]).netloc = urlparse(task[i].main_page_url).netloc

\* C22: when several pages of a site were loaded, the final ranking counts for each
\* address the highest context score it received on any of them (mailto +50,
\* footer/header/address +30): in a result of the Done path an entry never comes before
\* one whose total score, context bonus included, is higher.
C22_FinalRankingKeepsContext ==
    \A i \in Tasks :
        (DonePath(i) /\ Cardinality(task[i].loaded) > 1) =>
            \A j, k \in 1..Len(task[i].list) :
                j < k => ScoreWithContext(i, task[i].list[j])
                           >= ScoreWithContext(i, task[i].list[k])

\* C23: _prioritize_emails_by_relevance gives every candidate totalScore = (100 if
\* domain-matching else 0) + contextScore + prefixScore, prefixScore being 13 minus the
\* index of the first corporate prefix found in the local part and 0 when there is none,
\* and returns the candidates in non-increasing totalScore order, candidates of equal
\* totalScore in the order of the input.  Checked on the candidates of every loaded home
\* page, in every iteration order, whenever the function returns.
C23_RankingScoredAndStable ==
    \A i \in Tasks :
        HomeLoaded(i) =>
            LET page == HomePage(i)
            IN  \A order \in Orderings(all_found_emails(page)) :
                    LET cands == get_emails_with_context(page, order)
                    IN  ~prioritize_raises(cands) =>
                            RankedAsStated(cands,
                                           prioritize_emails_by_relevance(cands, page.final),
                                           page.final)

\* a loaded home page with two candidates of equal total score, a third of another total
\* score, and a candidate with a context bonus
C23_Witness ==
    \E i \in Tasks :
        /\ HomeLoaded(i)
        /\ LET page == HomePage(i)
               found == all_found_emails(page)
           IN  /\ \A a \in found : ~SplitRaises(a)
               /\ \E a, b, c \in found :
                     /\ a # b
                     /\ PageScore(page, a) = PageScore(page, b)
                     /\ PageScore(page, c) # PageScore(page, a)
                     /\ context_score(page, c) > 0

\* C24: the context score _get_emails_with_context gives a candidate is exactly 50 if it
\* is a mailto: target plus 30 if its text occurrence has a footer, header or address
\* ancestor, the 30 added once however many such ancestors enclose it: always one of 0,
\* 30, 50, 80.  Checked on every page a crawl has loaded, in every iteration order.
C24_ContextScoreAdditiveOnce ==
    \A i \in Tasks :
        \A page \in LoadedPages(i) :
            \A order \in Orderings(all_found_emails(page)) :
                LET cands == get_emails_with_context(page, order)
                IN  \A n \in 1..Len(cands) :
                        /\ cands[n].score =
                              (IF cands[n].address \in page.mailto THEN 50 ELSE 0)
                              + (IF cands[n].address \in page.ctx THEN 30 ELSE 0)
                        /\ cands[n].score \in {0, 30, 50, 80}

\* a loaded page with a mailto: target whose text sits inside two such ancestors, and
\* which scores 80
C24_Witness ==
    \E i \in Tasks :
        \E page \in LoadedPages(i) :
            \E a \in page.mailto :
                /\ Len(find_parents(page, a)) = 2
                /\ \A order \in Orderings(all_found_emails(page)) :
                      \E n \in 1..Len(order) :
                          get_emails_with_context(page, order)[n] = [address |-> a, score |-> 80]

\* C25: the contact page a crawl fetches is a minimum of the priority-1 links of its home
\* page under the order (bucket, path length), the buckets being exact one-segment
\* contact path < other one-segment contact path < path of several segments.
C25_ContactPageIsBestRanked ==
    \A i \in Tasks :
        (HomeLoaded(i) /\ task[i].contact_page \notin {"", HomePageMarker}) =>
            /\ task[i].contact_page \in ContactLinks(HomePage(i))
            /\ \A l \in ContactLinks(HomePage(i)) : NotAfter(task[i].contact_page, l)

\* C26: on the Done path the status follows from the final result alone: Success if and
\* only if the emails list is non-empty; the contact-page-found-but-no-email status if and
\* only if the list is empty and a contact page was selected; NoEmailFound if and only if
\* the list is empty and no contact page was selected.
C26_DoneStatusFromResult ==
    \A i \in Tasks :
        DonePath(i) =>
            /\ task[i].status = Success <=> task[i].list # <<>>
            /\ task[i].status = ContactPageFound_NoEmail <=>
                  (task[i].list = <<>> /\ task[i].contact_page # "")
            /\ task[i].status = NoEmailFound <=>
                  (task[i].list = <<>> /\ task[i].contact_page = "")

\* a crawl that selected a contact page, loaded it, and ended with an empty list
C26_Witness ==
    \E i \in Tasks :
        /\ DonePath(i)
        /\ task[i].list = <<>>
        /\ task[i].contact_page # ""
        /\ 2 \in task[i].loaded
        /\ task[i].status = ContactPageFound_NoEmail

\* C27: when the home page fetch of a site gives no content, the crawl ends at once with
\* the Unreachable status, no emails and no contact page, and no further page is fetched
\* for that site.
C27_NoHomePageMeansUnreachable ==
    \A i \in Tasks :
        HomeFailed(i) =>
            /\ Returned(i)
            /\ task[i].status = Unreachable
            /\ EmailCount(ResultOf(task[i])) = 0
            /\ task[i].contact_page = ""
            /\ task[i].fetches = <<normalize_url(task[i].url)>>

\* the home page of a site that has a contact link and a priority-2 link gave no content
C27_Witness ==
    \E i \in Tasks :
        /\ HomeFailed(i)
        /\ task[i].status = Unreachable
        /\ ContactLinks(HomePage(i)) # {}
        /\ other_links(get_all_internal_links(HomePage(i), HomePage(i).final)) # {}

\* C28: when the fetch of a contact page or of an expanded page fails after the home page
\* was loaded, the crawl does not end with an Error or Unreachable status: it goes on to
\* its next step, and the final result keeps every address gathered on the pages that
\* did load.
C28_LaterFetchFailureIsNotTerminal ==
    \A i \in Tasks :
        LaterFailed(i) =>
            /\ task[i].pc \in {"expanded", "returned"}
            /\ task[i].status \notin {Error, Unreachable}
            /\ Returned(i) => DonePath(i) /\ KeptLoaded(i)

\* the contact page of a crawl did not load, and the result is a success with the
\* addresses of the pages that did
C28_Witness ==
    \E i \in Tasks :
        /\ LaterFailed(i)
        /\ task[i].contact_page # ""
        /\ 2 \notin task[i].loaded
        /\ Returned(i)
        /\ task[i].status = Success
        /\ Shown(i) # {}
        /\ KeptLoaded(i)

\* C29: every rendering context opened by _get_page_content_with_js is closed before
\* that call returns, on every exit path (load, timeout, any other exception, an
\* exception while closing the page): the contexts open in the browser are those of the
\* calls in flight.
C29_ContextClosedOnEveryPath ==
    browser = "open" => contexts = Cardinality({i \in Tasks : task[i].pc \in Fetching})

\* C30: the verification pass queues a site again if and only if its first-pass result
\* has no emails, names a contact page, and the existence check of that page answered
\* 404; a check that answers anything else, or fails with a timeout, queues nothing and
\* does not stop the checks of the remaining sites: each such site is checked once.
C30_RequeuedIffExplicit404 ==
    Verifying =>
        /\ \A u \in DOMAIN results :
              u \in Range(retry_urls) <=>
                  (Verifiable(u) /\ \E n \in 1..Len(checked) : checked[n] = <<u, "404">>)
        /\ Len(checked) + Len(to_verify) = Cardinality({u \in DOMAIN results : Verifiable(u)})
        /\ \A n, m \in 1..Len(checked) : checked[n][1] = checked[m][1] => n = m
        /\ \A n \in 1..Len(checked) : Verifiable(checked[n][1])
        /\ \A n \in 1..Len(to_verify) :
              \A m \in 1..Len(checked) : to_verify[n] # checked[m][1]

\* two sites were checked: the first check timed out, the second answered 404, and the
\* second site alone is queued again
C30_Witness ==
    /\ proc = "verifying"
    /\ to_verify = <<>>
    /\ Len(checked) = 2
    /\ checked[1][2] = "timeout"
    /\ checked[2][2] = "404"
    /\ retry_urls = <<checked[2][1]>>

\* C31: within one batch the browser is launched before any site crawl starts, is never
\* closed while a site crawl of the batch is still in progress, and is closed when the
\* batch ends, however it ends (normal completion, an error leaving the collection loop,
\* cancellation).
C31_BrowserLivesWithBatch ==
    /\ batch = "running" => browser = "open"
    /\ batch # "running" => browser = "closed"
    /\ browser = "closed" => \A i \in Tasks : task[i].pc \notin {"throttle"} \cup Fetching

\* C32: every result in the map of a batch carries one of the terminal statuses (invalid
\* URL, unreachable, success on home page, success, contact page without email, no email
\* found, error); the in-progress status a result is given when its crawl starts never
\* appears in it.
C32_ResultsCarryTerminalStatus ==
    /\ InProgress \notin TerminalStatuses
    /\ \A u \in DOMAIN results : results[u].status \in TerminalStatuses

\* a batch has returned a map of two results with different statuses, one of them from
\* a crawl that went through its try block
C32_Witness ==
    /\ batch = "returned"
    /\ \E u, v \in DOMAIN results :
          /\ results[u].status = InvalidUrl
          /\ results[v].status \in {Success, ContactPageFound_NoEmail, Error}

\* C33: under any interleaving of the site crawls of one batch, the result stored for a
\* site holds only addresses taken from pages fetched by that site's own crawl, and its
\* contact page and status are those that crawl computed: no crawl writes into the
\* result of another site.
C33_ResultsIsolatedPerSite ==
    []ResultsFromOwnCrawl /\ [][StoredByOwnCrawl]_vars

\* two crawls that ran side by side were collected in the order opposite to the list,
\* each with an address of its own site
C33_Witness ==
    /\ result_keys = <<"twice.net", "acme.it">>
    /\ results["acme.it"].emails = <<"sales@acme.it">>
    /\ results["twice.net"].emails = <<"ceo@gmail.com">>

\* C34: if every page fetch eventually comes back, every batch terminates: each site
\* crawl gets past the semaphore and the throttle, reaches its result and gives its
\* permit back, so that no site waits forever behind the cap; the batch returns only
\* after the last site was collected, and a batch without a callback, or over the empty
\* list, does return, with a result for every site of the list.
C34_BatchTerminates ==
    /\ <>[]Settled
    /\ [](batch = "returned" => \A i \in Tasks : task[i].pc = "collected")

\* every permit is taken and a site waits behind the cap
C34_Witness ==
    /\ semaphore = 0
    /\ \E i \in Tasks : task[i].pc = "queued"
    /\ \E i \in Tasks : task[i].pc \in Fetching

\* the fetches of crawl i that went to a contact page: one when a contact link was chosen
ContactFetches(i) == IF task[i].contact_page \in {"", HomePageMarker} THEN 0 ELSE 1

EndedNow(u) == scans[u] \ scans'[u]

\* at most one scan task per user is alive, and it is the registered one; an entry of
\* active_tasks always names a task that is alive
OneScanPerUser ==
    \A u \in Users :
        /\ Cardinality(scans[u]) <= 1
        /\ u \in DOMAIN active_tasks => scans[u] = {active_tasks[u]}
        /\ u \notin DOMAIN active_tasks => scans[u] = {}

\* a document that arrives while its user's task is registered and not done starts
\* nothing and leaves active_tasks as it was; a document with lines of a user without
\* such a task is accepted; the end of a task removes the entry of its user alone
DocumentsAndEnds ==
    /\ documents' # documents =>
          LET u == handled'[1]
              kind == handled'[2]
              verdict == handled'[3]
          IN  /\ (u \in DOMAIN active_tasks /\ active_tasks[u] \in scans[u]) =>
                    /\ verdict \in {"busy", "refused"}
                    /\ active_tasks' = active_tasks
                    /\ scans' = scans
              /\ (kind = "urls" /\ scans[u] = {}) =>
                    /\ verdict = "started"
                    /\ u \in DOMAIN active_tasks' /\ scans'[u] = {active_tasks'[u]}
              /\ \A v \in Users \ {u} :
                    /\ scans'[v] = scans[v]
                    /\ v \in DOMAIN active_tasks' <=> v \in DOMAIN active_tasks
    /\ \A u \in Users :
          EndedNow(u) # {} =>
              /\ u \notin DOMAIN active_tasks'
              /\ \A v \in Users \ {u} :
                    /\ scans'[v] = scans[v]
                    /\ v \in DOMAIN active_tasks' <=> v \in DOMAIN active_tasks
    /\ (proc \in Ended /\ proc' = "scanning") => Owner \notin DOMAIN active_tasks

\* C36: for each user the bot runs at most one scan task at a time: a document sent
\* while the user's task is registered and not done starts no scan and leaves
\* active_tasks unchanged; when a task ends, after the report, a cancellation or an
\* error, its entry is removed, and the user's next document is accepted
C36_OneScanTaskPerUser == []OneScanPerUser /\ [][DocumentsAndEnds]_vars

\* the second scan of Owner runs, accepted after the first had ended, while another
\* user's scan runs too; the last document, of Owner, was turned away
C36_Witness ==
    /\ handled = <<Owner, "urls", "busy">>
    /\ \E t \in scans[Owner] : t > 1
    /\ \E u \in Users \ {Owner} : scans[u] # {}
    /\ proc = "scanning"

====
